---- MODULE Spec2Model ----
(***************************************************************************)
(* Hybrid greedy/random local-search SAT engines:                          *)
(*   Fix-p-Experiment/sat_solver.py            HybridSATSolver             *)
(*   mix-and-pure-experiment/enhanced_sat_solver.py EnhancedHybridSATSolver*)
(* and the part of the experiment harness that records a run's result.     *)
(* Probabilities are integers counting hundredths (p = 50 is 0.5).         *)
(***************************************************************************)
EXTENDS Integers, Sequences, FiniteSets, TLC

\* ---------------------------------------------------------------- bounds
MaxVars == 2
MaxClauses == 2
MaxClauseLen == 2
MaxFlips == 3
\* adjust_p called on its own: num_vars up to 10 puts 0.1*n and 0.3*n on integers
MaxAdjustVars == 10
MaxAdjustClauses == 4

\* values of random.random(), in hundredths of [0,1): p moves in steps of 5
\* between 0 and 100, so 0 decides "p > 0", 99 decides "p = 100" and 50 lies
\* between; every outcome of the gate at every such p is produced by one of them
GateDraws == {0, 50, 99}
\* values of p handed to the constructor by the well-formed runs
PValues == {0, 50, 95, 100}
\* values of restart_frequency: every flip, every second flip, never within the budget
RestartFrequencies == {1, 2, MaxFlips + 1}
\* values a caller can pass outside the documented ranges
RawPValues == {-5, 50, 105}
RawRestartFrequencies == {0, 2}
\* values of p at a direct call of adjust_p
AdjustPValues == {0, 3, 5, 50, 95, 97, 100}

\* ------------------------------------------------------- python values
None == <<>>
Some(x) == <<x>>
NoVar == -1

Abs(x) == IF x < 0 THEN -x ELSE x

\* ------------------------------------------------------- clause oracle
\* variant: the sign of the literal is not looked at
LiteralHolds_IgnoresSign(literal, m) == m[Abs(literal)]

\* the test of one literal against the assignment
LiteralHolds(literal, m) ==
    (literal > 0 /\ m[Abs(literal)]) \/ (literal < 0 /\ ~m[Abs(literal)])

\* the inner loop over one clause from its i-th literal on:
\* "sat" (break), "unsat" (loop ran out), "IndexError" (m[var] out of range)
RECURSIVE ScanClause(_, _, _)
ScanClause(clause, m, i) ==
    IF i > Len(clause) THEN "unsat"
    ELSE IF Abs(clause[i]) \notin DOMAIN m THEN "IndexError"
    ELSE IF LiteralHolds(clause[i], m) THEN "sat"
    ELSE ScanClause(clause, m, i + 1)

RECURSIVE IsSatisfiedFrom(_, _, _)
IsSatisfiedFrom(cls, m, i) ==
    IF i > Len(cls) THEN "True"
    ELSE LET r == ScanClause(cls[i], m, 1) IN
         IF r = "IndexError" THEN "IndexError"
         ELSE IF r = "unsat" THEN "False"
         ELSE IsSatisfiedFrom(cls, m, i + 1)

\* variant: True as soon as one clause is satisfied
is_satisfied_AnyClause(cls, m) ==
    IF \E i \in 1..Len(cls) : ScanClause(cls[i], m, 1) = "sat" THEN "True" ELSE "False"

\* "True", "False", or "IndexError" when the scan raises first
is_satisfied(cls, m) == IsSatisfiedFrom(cls, m, 1)

\* get_unsatisfied_clauses raises when any clause's scan raises
UnsatScanRaises(cls, m) ==
    \E i \in 1..Len(cls) : ScanClause(cls[i], m, 1) = "IndexError"

\* variant: the scan starts at the second clause
get_unsatisfied_clauses_SkipsFirst(cls, m) ==
    SelectSeq(SubSeq(cls, 2, Len(cls)), LAMBDA c : ScanClause(c, m, 1) = "unsat")

get_unsatisfied_clauses(cls, m) ==
    SelectSeq(cls, LAMBDA c : ScanClause(c, m, 1) = "unsat")

\* ----------------------------------------------------- variable selector
RECURSIVE CountInClause(_, _, _)
CountInClause(clause, v, i) ==
    IF i > Len(clause) THEN 0
    ELSE (IF Abs(clause[i]) = v THEN 1 ELSE 0) + CountInClause(clause, v, i + 1)

RECURSIVE CountInClauses(_, _, _)
CountInClauses(unsat, v, i) ==
    IF i > Len(unsat) THEN 0
    ELSE CountInClause(unsat[i], v, 1) + CountInClauses(unsat, v, i + 1)

\* variant: abs() forgotten, the literals themselves are collected
VarsOf_Signed(unsat) ==
    UNION {{unsat[i][j] : j \in 1..Len(unsat[i])} : i \in 1..Len(unsat)}

\* the keys of freq / the set `variables`
VarsOf(unsat) ==
    UNION {{Abs(unsat[i][j]) : j \in 1..Len(unsat[i])} : i \in 1..Len(unsat)}

\* variant: a variable counts once per clause, however often it occurs in it
variable_frequency_PerClause(unsat) ==
    [v \in VarsOf(unsat) |->
        Cardinality({i \in 1..Len(unsat) : CountInClause(unsat[i], v, 1) > 0})]

variable_frequency(unsat) ==
    [v \in VarsOf(unsat) |-> CountInClauses(unsat, v, 1)]

\* variant: the least frequent variables are the candidates (min for max)
select_variable_greedy_Min(unsat) ==
    LET freq == variable_frequency(unsat) IN
    IF DOMAIN freq = {} THEN {NoVar}
    ELSE LET min_freq == CHOOSE x \in {freq[v] : v \in DOMAIN freq} :
                            \A v \in DOMAIN freq : freq[v] >= x
         IN {v \in DOMAIN freq : freq[v] = min_freq}

\* the values select_variable_greedy can return (random.choice over candidates)
select_variable_greedy(unsat) ==
    LET freq == variable_frequency(unsat) IN
    IF DOMAIN freq = {} THEN {NoVar}
    ELSE LET max_freq == CHOOSE x \in {freq[v] : v \in DOMAIN freq} :
                            \A v \in DOMAIN freq : freq[v] <= x
         IN {v \in DOMAIN freq : freq[v] = max_freq}

\* the values select_variable_random can return
select_variable_random(unsat) ==
    LET variables == VarsOf(unsat) IN
    IF variables = {} THEN {NoVar} ELSE variables

\* variant: the variable is set instead of toggled
flip_variable_SetsTrue(m, v) == [m EXCEPT ![v] = TRUE]

\* variant: the assignment is indexed from 0, the neighbour is toggled
flip_variable_OffByOne(m, v) == [m EXCEPT ![v - 1] = ~m[v - 1]]

flip_variable(m, v) == [m EXCEPT ![v] = ~m[v]]

\* the assignments the constructor and restart() can draw
RandomModels(n) == [0..n -> BOOLEAN]

\* ------------------------------------------------- probability controller
\* variant: the cap is lost
Min_Unclamped(a, b) == a

Min(a, b) == IF a < b THEN a ELSE b
Max(a, b) == IF a > b THEN a ELSE b

\* variant: >= for > at the upper threshold
adjust_p_InclusiveBand(pp, num_unsat, n) ==
    IF 10 * num_unsat >= 3 * n THEN Min(pp + 5, 100)
    ELSE IF 10 * num_unsat < n THEN Max(pp - 5, 0)
    ELSE pp

\* num_unsat > num_vars * 0.3 and num_unsat < num_vars * 0.1 on integers, the
\* steps of 0.05 as 5 hundredths
adjust_p(pp, num_unsat, n) ==
    IF 10 * num_unsat > 3 * n THEN Min(pp + 5, 100)
    ELSE IF 10 * num_unsat < n THEN Max(pp - 5, 0)
    ELSE pp

\* variant: <= for <
GateGreedy_Inclusive(r, pp) == r <= pp

\* the gate: random.random() < self.p
GateGreedy(r, pp) == r < pp

\* variant: > for >=
RestartDue_Late(fsr, rf) == fsr > rf

\* the restart test after a flip
\* variant: the restart fires one flip early
RestartDue_Early(fsr, rf) == fsr + 1 >= rf

RestartDue(fsr, rf) == fsr >= rf

\* ------------------------------------------------------- return values
SatisfiedResult(f, m) == [status |-> TRUE, flips |-> f, model |-> Some(m)]
NoCandidateResult(f) == [status |-> FALSE, flips |-> f, model |-> None]
ExhaustedResult(mf) == [status |-> FALSE, flips |-> mf, model |-> None]
NoResult == [status |-> FALSE, flips |-> 0, model |-> None]

\* ------------------------------------------------------ constructor inputs
Literals(n) == (-n..n) \ {0}
\* literals in nondecreasing order: one representative per multiset of literals
ClausesOver(lits, minLen) ==
    {c \in UNION {[1..k -> lits] : k \in minLen..MaxClauseLen} :
        \A i \in 1..Len(c) - 1 : c[i] <= c[i + 1]}
FormulasOver(cs) == UNION {[1..k -> cs] : k \in 1..MaxClauses}

\* the satisfiable example of the study: (x1 | x2) & (~x1 | x2) & (x1 | ~x2)
ExampleFormula == <<(<<1, 2>>), (<<-1, 2>>), (<<1, -2>>)>>

\* satisfiable by x2, and x1 is the only most frequent variable of either clause
\* whenever x2 is false: (x1 | x1 | x2) & (~x1 | ~x1 | x2)
GreedyTrapFormula == <<(<<1, 1, 2>>), (<<-1, -1, 2>>)>>

\* formulas a loader hands over: non-empty clauses, literals within 1..n
WellFormedFormulas(n) ==
    FormulasOver(ClausesOver(Literals(n), 1))
        \cup (IF n >= 2 THEN {ExampleFormula, GreedyTrapFormula} ELSE {})

\* anything the constructor accepts: empty clauses, literal 0, literal n+1
RawFormulas(n) == FormulasOver(ClausesOver(-(n + 1)..(n + 1), 0))

PlainArgs(n, cls, pp, mf) ==
    [kind |-> "plain", clauses |-> cls, num_vars |-> n, p |-> pp, max_flips |-> mf,
     restart_frequency |-> 0, adaptive_p |-> FALSE]

EnhancedArgs(n, cls, pp, mf, rf, ad) ==
    [kind |-> "enhanced", clauses |-> cls, num_vars |-> n, p |-> pp, max_flips |-> mf,
     restart_frequency |-> rf, adaptive_p |-> ad]

\* ------------------------------------------------------------------ state
VARIABLES
    pc,                  \* "new", "solve", "returned", "raised", "recorded"
    args,                \* the constructor's arguments
    clauses, num_vars, p, max_flips, restart_frequency, adaptive_p,
    model,               \* self.model, indexed 0..num_vars
    flips_since_restart,
    flip,                \* the loop variable of solve()
    result,              \* the tuple solve() returned
    outcome,             \* which return statement produced it
    applied,             \* number of flip_variable calls so far
    restarts,            \* number of restart() calls so far
    var,                 \* the variable chosen in the last iteration
    selector,            \* the selector invoked in the last iteration
    recorded,            \* what run_experiment stored for the run
    oracle,              \* the last answers of the two oracle methods
    rng,                 \* the generator of the random module, shared by all instances
    runs                 \* two solver instances stepping side by side

aux == <<oracle, rng, runs>>
fields == <<clauses, num_vars, max_flips, restart_frequency, adaptive_p>>
ghost == <<applied, restarts, var, selector>>
vars == <<pc, args, fields, p, model, flips_since_restart, flip, result, outcome,
          ghost, recorded, aux>>

\* nothing asked of the oracle yet, generator and side-by-side instances unused
NoAnswers == [is_satisfied |-> "none", unsat |-> None]
InitAux ==
    /\ oracle = NoAnswers
    /\ rng = [seed |-> 0, state |-> 0]
    /\ runs = <<>>

InitRest ==
    /\ InitAux
    /\ pc = "new"
    /\ clauses = <<>> /\ num_vars = 0 /\ p = 0 /\ max_flips = 0
    /\ restart_frequency = 0 /\ adaptive_p = FALSE
    /\ model = <<>>
    /\ flips_since_restart = 0
    /\ flip = 0
    /\ result = NoResult
    /\ outcome = "none"
    /\ applied = 0 /\ restarts = 0 /\ var = NoVar /\ selector = "none"
    /\ recorded = None

\* configurations within the documented ranges, both engines
WellFormedInput ==
    \E n \in 1..MaxVars, pp \in PValues, mf \in 1..MaxFlips :
    \E cls \in WellFormedFormulas(n) :
        \/ args = PlainArgs(n, cls, pp, mf)
        \/ \E rf \in RestartFrequencies, ad \in BOOLEAN :
              args = EnhancedArgs(n, cls, pp, mf, rf, ad)

\* whatever a caller can pass: malformed formulas, out-of-range parameters
RawInput ==
    \E pp \in RawPValues, mf \in 0..MaxFlips - 1 :
    \E cls \in RawFormulas(1) :
        \/ args = PlainArgs(1, cls, pp, mf)
        \/ \E rf \in RawRestartFrequencies, ad \in BOOLEAN :
              args = EnhancedArgs(1, cls, pp, mf, rf, ad)

Init == WellFormedInput /\ InitRest

InitRaw == RawInput /\ InitRest

\* ---------------------------------------------------------------- actions
\* __init__: stores its arguments unchecked and draws the first assignment
Construct ==
    /\ pc = "new"
    /\ clauses' = args.clauses
    /\ num_vars' = args.num_vars
    /\ p' = args.p
    /\ max_flips' = args.max_flips
    /\ restart_frequency' = args.restart_frequency
    /\ adaptive_p' = args.adaptive_p
    /\ model' \in RandomModels(args.num_vars)
    /\ flips_since_restart' = 0
    /\ flip' = 1
    /\ pc' = "solve"
    /\ UNCHANGED <<aux, args, result, outcome, ghost, recorded>>

\* a return statement of solve()
Return(res, tag) ==
    /\ pc' = "returned"
    /\ result' = res
    /\ outcome' = tag
    /\ UNCHANGED <<aux, args, fields, model, flips_since_restart, flip,
                   applied, restarts, var, recorded>>

\* an IndexError leaving solve()
Raise ==
    /\ pc' = "raised"
    /\ outcome' = "IndexError"
    /\ UNCHANGED <<aux, args, fields, p, model, flips_since_restart, flip, result,
                   ghost, recorded>>

\* variant: the random selector is handed the whole formula
Selections_WholeFormula(unsat_clauses, pp) ==
    UNION {
        LET greedy == GateGreedy(r, pp)
            picks == IF greedy THEN select_variable_greedy(unsat_clauses)
                               ELSE select_variable_random(clauses)
        IN {[selector |-> IF greedy THEN "greedy" ELSE "random", v |-> v] : v \in picks}
        : r \in GateDraws}

\* the gate and the selector call: every (selector, variable) one iteration can
\* end up with, over the gate draws and the selector's own random.choice
Selections(unsat_clauses, pp) ==
    UNION {
        LET greedy == GateGreedy(r, pp)
            picks == IF greedy THEN select_variable_greedy(unsat_clauses)
                               ELSE select_variable_random(unsat_clauses)
        IN {[selector |-> IF greedy THEN "greedy" ELSE "random", v |-> v] : v \in picks}
        : r \in GateDraws}

\* sat_solver.py: the flip closes the iteration
HybridAfterFlip(m, v) ==
    {[model |-> flip_variable(m, v), fsr |-> 0, restarted |-> FALSE]}

\* variant: the restart forgets to zero the counter
EnhancedAfterFlip_KeepsCounter(m, fsr, v) ==
    IF RestartDue(fsr + 1, restart_frequency)
    THEN {[model |-> mm, fsr |-> fsr + 1, restarted |-> TRUE] : mm \in RandomModels(num_vars)}
    ELSE {[model |-> flip_variable(m, v), fsr |-> fsr + 1, restarted |-> FALSE]}

\* enhanced_sat_solver.py: the flip, the restart counter and the restart check
EnhancedAfterFlip(m, fsr, v) ==
    IF RestartDue(fsr + 1, restart_frequency)
    THEN {[model |-> mm, fsr |-> 0, restarted |-> TRUE] : mm \in RandomModels(num_vars)}
    ELSE {[model |-> flip_variable(m, v), fsr |-> fsr + 1, restarted |-> FALSE]}

\* the value of p the gate of this iteration reads
GateP(unsat_clauses, pp) ==
    IF args.kind = "enhanced" /\ adaptive_p
    THEN adjust_p(pp, Len(unsat_clauses), num_vars) ELSE pp

\* one iteration of HybridSATSolver.solve
HybridIteration ==
    /\ pc = "solve" /\ args.kind = "plain" /\ flip <= max_flips
    /\ LET sat == is_satisfied(clauses, model) IN
       IF sat = "IndexError" THEN Raise
       ELSE IF sat = "True"
       THEN Return(SatisfiedResult(flip, model), "satisfied") /\ UNCHANGED <<p, selector>>
       ELSE IF UnsatScanRaises(clauses, model) THEN Raise
       ELSE LET unsat_clauses == get_unsatisfied_clauses(clauses, model) IN
         IF unsat_clauses = <<>>
         THEN Return(SatisfiedResult(flip, model), "satisfied_empty")
              /\ UNCHANGED <<p, selector>>
         ELSE \E s \in Selections(unsat_clauses, p) :
                /\ selector' = s.selector
                /\ IF s.v = NoVar
                   THEN Return(NoCandidateResult(flip), "no_candidate") /\ UNCHANGED p
                   ELSE \E a \in HybridAfterFlip(model, s.v) :
                        /\ model' = a.model
                        /\ var' = s.v
                        /\ applied' = applied + 1
                        /\ flip' = flip + 1
                        /\ UNCHANGED <<aux, pc, args, fields, p, flips_since_restart,
                                       result, outcome, restarts, recorded>>

\* variant: a restart starts the flip budget afresh
EnhancedIteration_RestartResetsBudget ==
    /\ pc = "solve" /\ args.kind = "enhanced" /\ flip <= max_flips
    /\ LET sat == is_satisfied(clauses, model) IN
       IF sat = "IndexError" THEN Raise
       ELSE IF sat = "True"
       THEN Return(SatisfiedResult(flip, model), "satisfied") /\ UNCHANGED <<p, selector>>
       ELSE IF UnsatScanRaises(clauses, model) THEN Raise
       ELSE LET unsat_clauses == get_unsatisfied_clauses(clauses, model) IN
         IF unsat_clauses = <<>>
         THEN Return(SatisfiedResult(flip, model), "satisfied_empty")
              /\ UNCHANGED <<p, selector>>
         ELSE \E s \in Selections(unsat_clauses, GateP(unsat_clauses, p)) :
                /\ selector' = s.selector
                /\ p' = GateP(unsat_clauses, p)
                /\ IF s.v = NoVar
                   THEN Return(NoCandidateResult(flip), "no_candidate")
                   ELSE \E a \in EnhancedAfterFlip(model, flips_since_restart, s.v) :
                        /\ model' = a.model
                        /\ flips_since_restart' = a.fsr
                        /\ restarts' = IF a.restarted THEN restarts + 1 ELSE restarts
                        /\ var' = s.v
                        /\ applied' = applied + 1
                        /\ flip' = IF a.restarted THEN 1 ELSE flip + 1
                        /\ UNCHANGED <<aux, pc, args, fields, result, outcome, recorded>>

\* one iteration of EnhancedHybridSATSolver.solve
EnhancedIteration ==
    /\ pc = "solve" /\ args.kind = "enhanced" /\ flip <= max_flips
    /\ LET sat == is_satisfied(clauses, model) IN
       IF sat = "IndexError" THEN Raise
       ELSE IF sat = "True"
       THEN Return(SatisfiedResult(flip, model), "satisfied") /\ UNCHANGED <<p, selector>>
       ELSE IF UnsatScanRaises(clauses, model) THEN Raise
       ELSE LET unsat_clauses == get_unsatisfied_clauses(clauses, model) IN
         IF unsat_clauses = <<>>
         THEN Return(SatisfiedResult(flip, model), "satisfied_empty")
              /\ UNCHANGED <<p, selector>>
         ELSE \E s \in Selections(unsat_clauses, GateP(unsat_clauses, p)) :
                /\ selector' = s.selector
                /\ p' = GateP(unsat_clauses, p)
                /\ IF s.v = NoVar
                   THEN Return(NoCandidateResult(flip), "no_candidate")
                   ELSE \E a \in EnhancedAfterFlip(model, flips_since_restart, s.v) :
                        /\ model' = a.model
                        /\ flips_since_restart' = a.fsr
                        /\ restarts' = IF a.restarted THEN restarts + 1 ELSE restarts
                        /\ var' = s.v
                        /\ applied' = applied + 1
                        /\ flip' = flip + 1
                        /\ UNCHANGED <<aux, pc, args, fields, result, outcome, recorded>>

\* the for loop ran out: the final return of solve()
Exhausted ==
    /\ pc = "solve" /\ flip > max_flips
    /\ Return(ExhaustedResult(max_flips), "exhausted")
    /\ UNCHANGED <<p, selector>>

\* run_experiment: what the harness stores for a finished run
RecordRun ==
    /\ pc = "returned"
    /\ recorded' = IF result.status
                   THEN Some([success |-> 1, flips |-> result.flips])
                   ELSE Some([success |-> 0, flips |-> args.max_flips])
    /\ pc' = "recorded"
    /\ UNCHANGED <<aux, args, fields, p, model, flips_since_restart, flip, result,
                   outcome, ghost>>

Next ==
    \/ Construct
    \/ HybridIteration
    \/ EnhancedIteration
    \/ Exhausted
    \/ RecordRun

Spec == Init /\ [][Next]_vars

\* ------------------------------------------------ adjust_p called directly
\* an enhanced solver whose formula is unit clauses over x1, all other
\* variables drawn False, about to have adjust_p() called on it
InitAdjust ==
    \E n \in 1..MaxAdjustVars, pp \in AdjustPValues, k \in 0..MaxAdjustClauses :
    \E cls \in [1..k -> {<<1>>, <<-1>>}], b \in BOOLEAN :
        /\ args = EnhancedArgs(n, cls, pp, 1, 1, TRUE)
        /\ InitAux
        /\ pc = "adjust"
        /\ clauses = cls /\ num_vars = n /\ p = pp /\ max_flips = 1
        /\ restart_frequency = 1 /\ adaptive_p = TRUE
        /\ model = [i \in 0..n |-> IF i = 1 THEN b ELSE FALSE]
        /\ flips_since_restart = 0
        /\ flip = 1
        /\ result = NoResult
        /\ outcome = "none"
        /\ applied = 0 /\ restarts = 0 /\ var = NoVar /\ selector = "none"
        /\ recorded = None

\* EnhancedHybridSATSolver.adjust_p()
AdjustP ==
    /\ pc \in {"adjust", "adjusted"}
    /\ p' = adjust_p(p, Len(get_unsatisfied_clauses(clauses, model)), num_vars)
    /\ pc' = "adjusted"
    /\ UNCHANGED <<aux, args, fields, model, flips_since_restart, flip, result, outcome,
                   ghost, recorded>>

NextAdjust == AdjustP

SpecAdjust == InitAdjust /\ [][NextAdjust]_vars

\* solve runs and direct calls of adjust_p together
NextAdaptive == Next \/ AdjustP

SpecAdaptive == (Init \/ InitAdjust) /\ [][NextAdaptive]_vars

SpecRaw == InitRaw /\ [][Next]_vars

\* ------------------------------------------- the oracle methods called directly
\* a constructed solver about to be asked about its formula and assignment
InitOracle ==
    \E n \in 1..MaxVars :
    \E cls \in WellFormedFormulas(n), m \in RandomModels(n) :
        /\ args = PlainArgs(n, cls, 50, MaxFlips)
        /\ oracle = NoAnswers
        /\ rng = [seed |-> 0, state |-> 0]
        /\ runs = <<>>
        /\ pc = "oracle"
        /\ clauses = cls /\ num_vars = n /\ p = 50 /\ max_flips = MaxFlips
        /\ restart_frequency = MaxFlips + 1 /\ adaptive_p = FALSE
        /\ model = m
        /\ flips_since_restart = 0
        /\ flip = 1
        /\ result = NoResult
        /\ outcome = "none"
        /\ applied = 0 /\ restarts = 0 /\ var = NoVar /\ selector = "none"
        /\ recorded = None

\* what a call leaves alone besides the solver's formula and assignment
OracleFrame ==
    UNCHANGED <<rng, runs, pc, args, num_vars, p, max_flips, restart_frequency,
                adaptive_p, flips_since_restart, flip, result, outcome, ghost, recorded>>

\* a call of is_satisfied(): reads self.clauses and self.model, assigns nothing
CallIsSatisfied ==
    /\ pc = "oracle"
    /\ oracle' = [oracle EXCEPT !.is_satisfied = is_satisfied(clauses, model)]
    /\ UNCHANGED <<clauses, model>>
    /\ OracleFrame

\* a get_unsatisfied_clauses() that takes what it reports out of self.clauses
CallGetUnsatisfiedClauses_Consumes ==
    /\ pc = "oracle"
    /\ oracle' = [oracle EXCEPT !.unsat = Some(get_unsatisfied_clauses(clauses, model))]
    /\ clauses' = SelectSeq(clauses, LAMBDA c : ScanClause(c, model, 1) # "unsat")
    /\ UNCHANGED model
    /\ OracleFrame

\* a call of get_unsatisfied_clauses(): builds a new list, assigns nothing
CallGetUnsatisfiedClauses ==
    /\ pc = "oracle"
    /\ oracle' = [oracle EXCEPT !.unsat = Some(get_unsatisfied_clauses(clauses, model))]
    /\ UNCHANGED <<clauses, model>>
    /\ OracleFrame

NextOracle ==
    \/ CallIsSatisfied
    \/ CallGetUnsatisfiedClauses

SpecOracle == InitOracle /\ [][NextOracle]_vars

\* ------------------------------------------- two instances, one random module
\* Both solver classes call random.choice and random.random of the random
\* module: one generator per process, advanced by every call of every instance.
\* The generator is a small full-period congruential one.
RngNext(s) == (5 * s + 3) % 16
Seeds == 0..15

RECURSIVE RngAfter(_, _)
RngAfter(s, k) == IF k = 0 THEN s ELSE RngAfter(RngNext(s), k - 1)

\* random.random() in hundredths, and random.choice(seq), read off the high bits
RngRandom(s) == 25 * (s \div 4)
RngChoice(seq, s) == seq[((s \div 4) % Len(seq)) + 1]

\* [random.choice([True, False]) for _ in range(num_vars + 1)] from state s
DrawModel(n, s) ==
    [model |-> [i \in 0..n |-> RngChoice(<<TRUE, FALSE>>, RngAfter(s, i))],
     rng |-> RngAfter(s, n + 1)]

\* the keys of the frequency dict in insertion order: first occurrence
RECURSIVE KeysInOrder(_, _, _, _)
KeysInOrder(unsat_clauses, i, j, seen) ==
    IF i > Len(unsat_clauses) THEN seen
    ELSE IF j > Len(unsat_clauses[i]) THEN KeysInOrder(unsat_clauses, i + 1, 1, seen)
    ELSE LET v == Abs(unsat_clauses[i][j]) IN
         KeysInOrder(unsat_clauses, i, j + 1,
                     IF \E k \in 1..Len(seen) : seen[k] = v THEN seen ELSE Append(seen, v))

\* max_vars of select_variable_greedy, as the list random.choice indexes
GreedyList(unsat_clauses) ==
    SelectSeq(KeysInOrder(unsat_clauses, 1, 1, <<>>),
              LAMBDA v : v \in select_variable_greedy(unsat_clauses))

\* list(variables) of select_variable_random: a set of small ints lists ascending
RandomList(unsat_clauses, n) ==
    SelectSeq([v \in 1..n |-> v], LAMBDA v : v \in select_variable_random(unsat_clauses))

\* an enhanced solver object right after __init__ drew the assignment m
NewInstance(cls, n, rf, m) ==
    [clauses |-> cls, num_vars |-> n, p |-> 50, max_flips |-> MaxFlips,
     restart_frequency |-> rf, adaptive_p |-> FALSE, model |-> m,
     flips_since_restart |-> 0, flip |-> 1, pc |-> "solve", result |-> NoResult,
     steps |-> 0]

\* two solvers constructed one after the other from a freshly seeded generator
Constructed(seed, cls, n, rf) ==
    LET a == DrawModel(n, seed)
        b == DrawModel(n, a.rng)
    IN [A |-> NewInstance(cls, n, rf, a.model),
        B |-> NewInstance(cls, n, rf, b.model),
        rng |-> b.rng]

Returned(inst, res) == [inst EXCEPT !.pc = "returned", !.result = res, !.steps = @ + 1]

\* one iteration of solve() of instance inst with the generator in state s:
\* the instance afterwards and the generator afterwards
SolveStep(inst, s) ==
    IF inst.flip > inst.max_flips
    THEN [inst |-> Returned(inst, ExhaustedResult(inst.max_flips)), rng |-> s]
    ELSE IF is_satisfied(inst.clauses, inst.model) = "True"
    THEN [inst |-> Returned(inst, SatisfiedResult(inst.flip, inst.model)), rng |-> s]
    ELSE
    LET unsat_clauses == get_unsatisfied_clauses(inst.clauses, inst.model)
        pp == IF inst.adaptive_p
              THEN adjust_p(inst.p, Len(unsat_clauses), inst.num_vars) ELSE inst.p
        greedy == GateGreedy(RngRandom(s), pp)
        picks == IF greedy THEN GreedyList(unsat_clauses)
                           ELSE RandomList(unsat_clauses, inst.num_vars)
        s1 == RngNext(s)
        redraw == DrawModel(inst.num_vars, RngNext(s1))
    IN
    IF unsat_clauses = <<>>
    THEN [inst |-> Returned(inst, SatisfiedResult(inst.flip, inst.model)), rng |-> s]
    ELSE IF picks = <<>>
    THEN [inst |-> Returned([inst EXCEPT !.p = pp], NoCandidateResult(inst.flip)),
          rng |-> s1]
    ELSE IF RestartDue(inst.flips_since_restart + 1, inst.restart_frequency)
    THEN [inst |-> [inst EXCEPT !.p = pp, !.model = redraw.model,
                                !.flips_since_restart = 0, !.flip = @ + 1,
                                !.steps = @ + 1],
          rng |-> redraw.rng]
    ELSE [inst |-> [inst EXCEPT !.p = pp,
                                !.model = flip_variable(inst.model, RngChoice(picks, s1)),
                                !.flips_since_restart = @ + 1, !.flip = @ + 1,
                                !.steps = @ + 1],
          rng |-> RngNext(s1)]

InitShared ==
    \E seed \in Seeds, cls \in WellFormedFormulas(MaxVars),
       rf \in {MaxFlips - 1, MaxFlips + 1} :
    LET c == Constructed(seed, cls, MaxVars, rf) IN
        /\ args = EnhancedArgs(MaxVars, cls, 50, MaxFlips, rf, FALSE)
        /\ oracle = NoAnswers
        /\ rng = [seed |-> seed, state |-> c.rng]
        /\ runs = [A |-> c.A, B |-> c.B]
        /\ pc = "shared"
        /\ clauses = cls /\ num_vars = MaxVars /\ p = 50 /\ max_flips = MaxFlips
        /\ restart_frequency = rf /\ adaptive_p = FALSE
        /\ model = c.A.model
        /\ flips_since_restart = 0
        /\ flip = 1
        /\ result = NoResult
        /\ outcome = "none"
        /\ applied = 0 /\ restarts = 0 /\ var = NoVar /\ selector = "none"
        /\ recorded = None

\* the scheduler lets instance i run one iteration of its solve()
StepInstance(i) ==
    /\ pc = "shared"
    /\ runs[i].pc = "solve"
    /\ LET r == SolveStep(runs[i], rng.state) IN
        /\ runs' = [runs EXCEPT ![i] = r.inst]
        /\ rng' = [rng EXCEPT !.state = r.rng]
    /\ UNCHANGED <<oracle, pc, args, fields, p, model, flips_since_restart, flip,
                   result, outcome, ghost, recorded>>

NextShared == \E i \in {"A", "B"} : StepInstance(i)

SpecShared == InitShared /\ [][NextShared]_vars

\* ------------------------------------- the two engines fed the same draws
\* a HybridSATSolver object right after __init__ drew the assignment m
NewPlainInstance(cls, n, pp, mf, m) ==
    [clauses |-> cls, num_vars |-> n, p |-> pp, max_flips |-> mf, model |-> m,
     flip |-> 1, pc |-> "solve", result |-> NoResult, steps |-> 0]

\* one iteration of HybridSATSolver.solve with the generator in state s:
\* the instance afterwards and the generator afterwards
HybridSolveStep(inst, s) ==
    IF inst.flip > inst.max_flips
    THEN [inst |-> Returned(inst, ExhaustedResult(inst.max_flips)), rng |-> s]
    ELSE IF is_satisfied(inst.clauses, inst.model) = "True"
    THEN [inst |-> Returned(inst, SatisfiedResult(inst.flip, inst.model)), rng |-> s]
    ELSE
    LET unsat_clauses == get_unsatisfied_clauses(inst.clauses, inst.model)
        greedy == GateGreedy(RngRandom(s), inst.p)
        picks == IF greedy THEN GreedyList(unsat_clauses)
                           ELSE RandomList(unsat_clauses, inst.num_vars)
        s1 == RngNext(s)
    IN
    IF unsat_clauses = <<>>
    THEN [inst |-> Returned(inst, SatisfiedResult(inst.flip, inst.model)), rng |-> s]
    ELSE IF picks = <<>>
    THEN [inst |-> Returned(inst, NoCandidateResult(inst.flip)), rng |-> s1]
    ELSE [inst |-> [inst EXCEPT !.model = flip_variable(inst.model, RngChoice(picks, s1)),
                                !.flip = @ + 1, !.steps = @ + 1],
          rng |-> RngNext(s1)]

\* a plain and an enhanced solver, the enhanced one with adaptive_p off and
\* restart_frequency beyond max_flips, each constructed from a generator
\* seeded with the same seed and each keeping its own generator
InitPair ==
    \E seed \in Seeds, cls \in WellFormedFormulas(MaxVars), pp \in PValues :
    LET c == DrawModel(MaxVars, seed) IN
        /\ args = EnhancedArgs(MaxVars, cls, pp, MaxFlips, MaxFlips + 1, FALSE)
        /\ oracle = NoAnswers
        /\ rng = [seed |-> seed, state |-> c.rng]
        /\ runs = [plain |-> [inst |-> NewPlainInstance(cls, MaxVars, pp, MaxFlips, c.model),
                              rng |-> c.rng],
                   enhanced |-> [inst |-> [NewInstance(cls, MaxVars, MaxFlips + 1, c.model)
                                              EXCEPT !.p = pp],
                                 rng |-> c.rng]]
        /\ pc = "pair"
        /\ clauses = cls /\ num_vars = MaxVars /\ p = pp /\ max_flips = MaxFlips
        /\ restart_frequency = MaxFlips + 1 /\ adaptive_p = FALSE
        /\ model = c.model
        /\ flips_since_restart = 0
        /\ flip = 1
        /\ result = NoResult
        /\ outcome = "none"
        /\ applied = 0 /\ restarts = 0 /\ var = NoVar /\ selector = "none"
        /\ recorded = None

PairFrame ==
    UNCHANGED <<oracle, rng, pc, args, fields, p, model, flips_since_restart, flip,
                result, outcome, ghost, recorded>>

\* the plain engine runs one iteration of its solve()
StepPlain ==
    /\ pc = "pair"
    /\ runs.plain.inst.pc = "solve"
    /\ runs' = [runs EXCEPT !.plain = HybridSolveStep(@.inst, @.rng)]
    /\ PairFrame

\* the enhanced engine runs one iteration of its solve()
StepEnhanced ==
    /\ pc = "pair"
    /\ runs.enhanced.inst.pc = "solve"
    /\ runs' = [runs EXCEPT !.enhanced = SolveStep(@.inst, @.rng)]
    /\ PairFrame

NextPair ==
    \/ StepPlain
    \/ StepEnhanced

SpecPair == InitPair /\ [][NextPair]_vars

\* ===================================================================== claims
\* The definitions below state the properties; they use the assignment, the
\* formula and the counters only, not the oracle's operators.

\* a clause has a literal whose polarity matches the variable's value
ClauseTrue(clause, m) ==
    \E j \in 1..Len(clause) :
        /\ Abs(clause[j]) \in DOMAIN m
        /\ \/ clause[j] > 0 /\ m[Abs(clause[j])]
           \/ clause[j] < 0 /\ ~m[Abs(clause[j])]

Satisfies(cls, m) == \A i \in 1..Len(cls) : ClauseTrue(cls[i], m)

Satisfiable(cls, n) == \E m \in [0..n -> BOOLEAN] : Satisfies(cls, m)

Finished == pc \in {"returned", "recorded"}

\* the documented ranges of section 6 and 7(a)
WellFormedFormula(cls, n) ==
    \A i \in 1..Len(cls) :
        /\ Len(cls[i]) > 0
        /\ \A j \in 1..Len(cls[i]) : Abs(cls[i][j]) \in 1..n

WellFormedArgs(a) ==
    /\ WellFormedFormula(a.clauses, a.num_vars)
    /\ a.p >= 0 /\ a.p <= 100
    /\ a.max_flips > 0
    /\ a.kind = "enhanced" => a.restart_frequency > 0

\* C1: whenever solve() returns status True, the assignment it returns makes
\* every clause of the formula true.
C1_SatisfiedIsSound ==
    (Finished /\ result.status) =>
        /\ Len(result.model) = 1
        /\ Satisfies(args.clauses, result.model[1])

C1_Witness ==
    /\ pc = "returned" /\ result.status /\ applied >= 2
    /\ Satisfies(args.clauses, model)

\* C2 (as claimed): when solve() returns the Exhausted result, the assignment
\* the solver holds does not satisfy the formula.
C2_ExhaustedIsUnsatisfied ==
    outcome = "exhausted" => ~Satisfies(args.clauses, model)

\* C3 (as claimed): a Satisfied return reports the number of flips applied
\* during the run, 0 when the first assignment already satisfies the formula.
C3_ReportsAppliedFlips ==
    (Finished /\ result.status) => result.flips = applied

\* C4: on an unsatisfiable well-formed formula solve() always ends with the
\* Exhausted result, flips = max_flips and no assignment, after applying all
\* max_flips flips; it neither returns Satisfied nor returns early nor raises.
C4_UnsatisfiableExhausts ==
    ~Satisfiable(args.clauses, args.num_vars) =>
        /\ pc # "raised"
        /\ Finished =>
            /\ outcome = "exhausted"
            /\ result = [status |-> FALSE, flips |-> args.max_flips, model |-> <<>>]
            /\ applied = args.max_flips

C4_Witness ==
    /\ pc = "returned"
    /\ ~Satisfiable(args.clauses, args.num_vars)
    /\ args.max_flips >= 2
    /\ result.flips = args.max_flips

\* some sequence of gate draws, selector picks and restart draws leads solve()
\* from assignment m (gate probability pp, restart counter fsr) at the head of
\* iteration f to a Satisfied return
RECURSIVE CanReturnSatisfied(_, _, _, _)
CanReturnSatisfied(m, pp, fsr, f) ==
    /\ f <= max_flips
    /\ \/ is_satisfied(clauses, m) = "True"
       \/ LET unsat_clauses == get_unsatisfied_clauses(clauses, m)
              p1 == GateP(unsat_clauses, pp)
          IN \E s \in Selections(unsat_clauses, p1) :
                /\ s.v # NoVar
                /\ \E a \in (IF args.kind = "plain"
                              THEN HybridAfterFlip(m, s.v)
                              ELSE EnhancedAfterFlip(m, fsr, s.v)) :
                      CanReturnSatisfied(a.model, p1, a.fsr, f + 1)

\* the start of a run the starvation claim speaks of
C5_StartOfRun ==
    /\ pc = "solve" /\ flip = 1
    /\ Satisfiable(clauses, num_vars)
    /\ args.p > 0 /\ args.p < 100
    /\ max_flips > num_vars

C6_InconsistentIsDistinct ==
    (/\ outcome = "no_candidate" /\ args.kind = "enhanced"
     /\ args.p \in 0..100 /\ args.max_flips > 0 /\ args.restart_frequency > 0) =>
        /\ result # [status |-> FALSE, flips |-> args.max_flips, model |-> <<>>]
        /\ pc = "recorded" =>
               recorded # <<[success |-> 0, flips |-> args.max_flips]>>

\* C7 (as claimed): no solver is in its running state for a configuration
\* outside the documented ranges.
C7_FailsFastAtConstruction ==
    pc = "solve" => WellFormedArgs(args)

\* C8: with p = 0.0 and adaptive_p off, no iteration invokes the greedy selector.
C8_NeverGreedyAtZero ==
    (pc # "new" /\ args.p = 0 /\ ~adaptive_p) => selector # "greedy"

C8_Witness ==
    /\ args.p = 0 /\ ~adaptive_p /\ args.kind = "enhanced"
    /\ applied >= 2 /\ selector = "random"

\* occurrences of variable v in the clauses that m leaves unsatisfied
Occurrences(v, m) ==
    Cardinality(UNION {
        {<<i, j>> : j \in {k \in 1..Len(clauses[i]) : Abs(clauses[i][k]) = v}}
        : i \in {k \in 1..Len(clauses) : ~ClauseTrue(clauses[k], m)}})

\* the variables of maximum (non-zero) occurrence under m
MostFrequent(m) ==
    {v \in 1..num_vars :
        /\ Occurrences(v, m) > 0
        /\ \A w \in 1..num_vars : Occurrences(w, m) <= Occurrences(v, m)}

\* C9: with p fixed at 1.0, an iteration that starts with exactly one variable
\* of maximum frequency in the unsatisfied clauses flips that variable,
\* whatever the gate draw and the tie-break draw.
C9_UniqueMaximumIsFlipped ==
    [][(/\ pc = "solve" /\ p = 100 /\ ~adaptive_p
        /\ applied' = applied + 1
        /\ Cardinality(MostFrequent(model)) = 1)
       => (/\ var' \in MostFrequent(model)
           /\ selector' = "greedy"
           /\ restarts' = restarts => model' = [model EXCEPT ![var'] = ~model[var']])]_vars

\* after a flip chosen among two or more candidates of which one was most frequent
C9_Witness ==
    /\ p = 100 /\ ~adaptive_p /\ applied = 1 /\ restarts = 0 /\ pc = "solve"
    /\ LET before == [model EXCEPT ![var] = ~model[var]] IN
        /\ MostFrequent(before) = {var}
        /\ \E w \in 1..num_vars : w # var /\ Occurrences(w, before) > 0

\* C10: in the enhanced engine the assignment is redrawn and
\* flips_since_restart reset exactly in the iterations that apply the R-th,
\* 2R-th, ... flip, within that iteration, and nowhere else.
C10_RestartSchedule ==
    [][(args.kind = "enhanced" /\ pc = "solve") =>
        /\ applied' = applied + 1 =>
            /\ (restarts' = restarts + 1) <=> (applied' % restart_frequency = 0)
            /\ (restarts' = restarts) <=> (applied' % restart_frequency # 0)
            /\ restarts' = restarts + 1 => flips_since_restart' = 0
            /\ restarts' = restarts =>
                  /\ flips_since_restart' = flips_since_restart + 1
                  /\ model' = [model EXCEPT ![var'] = ~model[var']]
        /\ applied' = applied =>
            /\ restarts' = restarts
            /\ model' = model
            /\ flips_since_restart' = flips_since_restart]_vars

C10_Witness ==
    /\ args.kind = "enhanced" /\ restart_frequency = 2
    /\ applied = 3 /\ restarts = 1 /\ flips_since_restart = 1

\* number of clauses the assignment leaves unsatisfied
NumUnsat == Cardinality({i \in 1..Len(clauses) : ~ClauseTrue(clauses[i], model)})

C12_PInRange ==
    (pc # "new" /\ args.p >= 0 /\ args.p <= 100) => (p >= 0 /\ p <= 100)

\* a solve run in which the cap was hit and p adjusted again
C12_Witness ==
    /\ pc = "solve" /\ adaptive_p /\ args.p = 95 /\ p = 100 /\ applied >= 2

\* C13: is_satisfied() answers True exactly when get_unsatisfied_clauses()
\* answers the empty list, so solve() never takes its second Satisfied return.
C13_OracleAgreement ==
    /\ pc \in {"solve", "returned", "recorded"} =>
          ((is_satisfied(clauses, model) = "True")
              <=> (get_unsatisfied_clauses(clauses, model) = <<>>))
    /\ outcome # "satisfied_empty"

\* mid-run, some clauses satisfied and some not
C13_Witness ==
    /\ pc = "solve" /\ applied >= 1
    /\ is_satisfied(clauses, model) = "False"
    /\ Len(get_unsatisfied_clauses(clauses, model)) \in 1..Len(clauses) - 1

RECURSIVE AloneAfter(_, _, _)
AloneAfter(inst, s, k) ==
    IF k = 0 THEN [inst |-> inst, rng |-> s]
    ELSE LET q == AloneAfter(inst, s, k - 1) IN SolveStep(q.inst, q.rng)

\* C16: however the iterations of two solve attempts are interleaved, each
\* attempt's assignment, counters and result are those it has after the same
\* number of iterations when it runs alone from the same seed
C16_InterleavingIndependent ==
    (pc = "shared") =>
        \A i \in {"A", "B"} :
            LET c == Constructed(rng.seed, clauses, num_vars, restart_frequency) IN
            runs[i] = AloneAfter(c[i], c.rng, runs[i].steps).inst

\* p after the adjust_p call of an iteration, from the unsatisfied count
AdjustedP ==
    IF ~adaptive_p THEN p
    ELSE IF 10 * NumUnsat > 3 * num_vars THEN (IF p + 5 > 100 THEN 100 ELSE p + 5)
    ELSE IF 10 * NumUnsat < num_vars THEN (IF p - 5 < 0 THEN 0 ELSE p - 5)
    ELSE p

\* C17: an iteration that ends in a restart redraws the assignment and zeroes
\* the restart counter, but the flip it made still counts against the budget
\* and p keeps the value the controller gave it; so the flips applied in a run
\* never exceed max_flips
C17_RestartKeepsBudget ==
    /\ [](pc \in {"solve", "returned", "recorded"} =>
            (applied <= max_flips /\ applied = flip - 1))
    /\ [][(pc = "solve" /\ restarts' = restarts + 1) =>
            (/\ flip' = flip + 1
             /\ applied' = applied + 1
             /\ p' = AdjustedP
             /\ flips_since_restart' = 0
             /\ UNCHANGED <<clauses, num_vars, max_flips, restart_frequency, adaptive_p>>)]_vars

\* a run that used its whole budget with two restarts and an adapted p
C17_Witness ==
    /\ outcome = "exhausted"
    /\ restarts >= 2
    /\ applied = max_flips
    /\ adaptive_p
    /\ p # args.p

\* the clauses the current assignment leaves unsatisfied, in formula order
UnsatisfiedNow == SelectSeq(clauses, LAMBDA c : ~ClauseTrue(c, model))

\* C18: on a well-formed formula with a non-empty unsatisfied set both
\* selectors can only return variable ids in 1..num_vars, never the
\* no-candidate signal, and solve() never takes the no-candidate return
C18_SelectorsReturnVariables ==
    /\ (pc = "solve" /\ UnsatisfiedNow # <<>>) =>
          (/\ select_variable_greedy(UnsatisfiedNow) # {}
           /\ select_variable_greedy(UnsatisfiedNow) \subseteq 1..num_vars
           /\ select_variable_random(UnsatisfiedNow) # {}
           /\ select_variable_random(UnsatisfiedNow) \subseteq 1..num_vars)
    /\ outcome # "no_candidate"
    /\ (pc = "solve" /\ applied >= 1) => var \in 1..num_vars

\* mid-run, two clauses unsatisfied, the last pick made by the random selector
C18_Witness ==
    /\ pc = "solve" /\ applied >= 1 /\ selector = "random"
    /\ Len(UnsatisfiedNow) >= 2
    /\ \E i \in 1..Len(clauses) : \E j \in 1..Len(clauses[i]) : clauses[i][j] < 0

\* C19: the variables select_variable_greedy can return are exactly the
\* variables of maximum occurrence count over the unsatisfied clauses (each of
\* them occurs in an unsatisfied clause), and a greedy iteration flips one of them
C19_GreedyPicksMaximum ==
    /\ []((pc = "solve" /\ UnsatisfiedNow # <<>>) =>
            (select_variable_greedy(UnsatisfiedNow) = MostFrequent(model)))
    /\ [][(pc = "solve" /\ applied' = applied + 1 /\ selector' = "greedy") =>
            (/\ var' \in MostFrequent(model)
             /\ Occurrences(var', model) > 0)]_vars

\* after a greedy flip that broke a tie between two variables of maximum count
C19_Witness ==
    /\ pc = "solve" /\ applied = 1 /\ restarts = 0 /\ selector = "greedy"
    /\ LET before == [model EXCEPT ![var] = ~model[var]] IN
        /\ Cardinality(MostFrequent(before)) = 2
        /\ var = 2
        /\ Occurrences(var, before) >= 2

\* C20: the variables select_variable_random can return are exactly those
\* occurring in a currently unsatisfied clause, and a random iteration flips
\* one of them
C20_RandomPoolIsConflicting ==
    /\ []((pc = "solve" /\ UnsatisfiedNow # <<>>) =>
            (select_variable_random(UnsatisfiedNow)
                = {v \in 1..num_vars : Occurrences(v, model) > 0}))
    /\ [][(pc = "solve" /\ applied' = applied + 1 /\ selector' = "random") =>
            (Occurrences(var', model) > 0)]_vars

\* after a random flip made while another variable of the formula occurred in
\* satisfied clauses only
C20_Witness ==
    /\ pc = "solve" /\ applied = 1 /\ restarts = 0 /\ selector = "random"
    /\ LET before == [model EXCEPT ![var] = ~model[var]] IN
        /\ Occurrences(var, before) > 0
        /\ \E w \in 1..num_vars :
            /\ w # var
            /\ Occurrences(w, before) = 0
            /\ \E i \in 1..Len(clauses) : \E j \in 1..Len(clauses[i]) :
                   Abs(clauses[i][j]) = w

\* C21 (as claimed): whatever the formula and the configuration, solve() ends
\* in one of its three outcomes (Satisfied, Exhausted, Inconsistent), having
\* run at most max_flips iterations and applied at most max_flips flips
\* (parameters within their ranges)
C21_TerminatesWithinBudget ==
    (/\ args.p \in 0..100 /\ args.max_flips > 0
     /\ args.kind = "enhanced" => args.restart_frequency > 0) =>
        /\ pc # "raised"
        /\ pc \in {"solve", "returned", "recorded"} =>
              (applied <= max_flips /\ flip <= max_flips + 1)
        /\ Finished =>
              outcome \in {"satisfied", "satisfied_empty", "exhausted", "no_candidate"}

\* C22: fed the same draws, the enhanced engine with adaptive_p off and
\* restart_frequency > max_flips has, after every number of iterations, the
\* assignment, position and result the plain engine has after as many
C22_DisabledOptionsEqualPlain ==
    (pc = "pair" /\ runs.plain.inst.steps = runs.enhanced.inst.steps) =>
        LET a == runs.plain.inst
            b == runs.enhanced.inst
        IN /\ a.model = b.model
           /\ a.flip = b.flip
           /\ a.pc = b.pc
           /\ a.result = b.result
           /\ a.p = b.p
           /\ runs.plain.rng = runs.enhanced.rng

\* both engines exhausted the budget on a formula, with every flip applied
C22_Witness ==
    /\ pc = "pair"
    /\ runs.plain.inst.pc = "returned" /\ runs.enhanced.inst.pc = "returned"
    /\ runs.enhanced.inst.result = ExhaustedResult(MaxFlips)
    /\ runs.enhanced.inst.flips_since_restart = MaxFlips
    /\ runs.plain.inst.model # model

\* C23 (as claimed): the assignment a restart throws away, the one left by the
\* flip that brought flips_since_restart to restart_frequency, never
\* satisfies the formula
C23_RestartDiscardsOnlyFailures ==
    [][(pc = "solve" /\ restarts' = restarts + 1 /\ WellFormedArgs(args)) =>
        ~Satisfies(clauses, [model EXCEPT ![var'] = ~model[var']])]_vars

\* variable v occurs in the clause, in either polarity
OccursIn(v, clause) == \E j \in 1..Len(clause) : Abs(clause[j]) = v

\* C24: an iteration that flips v and does not restart leaves every clause
\* that was unsatisfied and contains v satisfied, repairs at least one
\* clause, and breaks only clauses that were satisfied and contain v
C24_FlipRepairsItsClauses ==
    [][(pc = "solve" /\ applied' = applied + 1 /\ restarts' = restarts) =>
        (/\ \A i \in 1..Len(clauses) :
               (~ClauseTrue(clauses[i], model) /\ OccursIn(var', clauses[i]))
                   => ClauseTrue(clauses[i], model')
         /\ \E i \in 1..Len(clauses) :
               ~ClauseTrue(clauses[i], model) /\ ClauseTrue(clauses[i], model')
         /\ \A i \in 1..Len(clauses) :
               (ClauseTrue(clauses[i], model) /\ ~ClauseTrue(clauses[i], model'))
                   => OccursIn(var', clauses[i]))]_vars

\* after a first flip that repaired one clause and broke another
C24_Witness ==
    /\ pc = "solve" /\ applied = 1 /\ restarts = 0
    /\ flips_since_restart = (IF args.kind = "enhanced" THEN 1 ELSE 0)
    /\ LET before == [model EXCEPT ![var] = ~model[var]] IN
        /\ \E i \in 1..Len(clauses) :
               ~ClauseTrue(clauses[i], before) /\ ClauseTrue(clauses[i], model)
        /\ \E i \in 1..Len(clauses) :
               ClauseTrue(clauses[i], before) /\ ~ClauseTrue(clauses[i], model)

\* C25: at the start of every iteration of the enhanced engine's solve(),
\* with restart_frequency R >= 1, flips_since_restart lies in 0..R-1 and
\* equals the number of flips applied so far modulo R
C25_RestartCounterInvariant ==
    (pc = "solve" /\ args.kind = "enhanced" /\ restart_frequency >= 1) =>
        /\ flips_since_restart >= 0
        /\ flips_since_restart < restart_frequency
        /\ flips_since_restart = applied % restart_frequency

\* an iteration starting right after the restart that closed a period of two
C25_Witness ==
    /\ pc = "solve" /\ args.kind = "enhanced" /\ flip <= max_flips
    /\ restart_frequency = 2 /\ applied = 2
    /\ flips_since_restart = 0 /\ restarts = 1

====
